---- MODULE Spec2Model ----
\* A model of pycalrissian: the job manifest builder (job.py, CalrissianJob)
\* and the execution lifecycle (execution.py, CalrissianExecution).
EXTENDS Integers, Sequences, FiniteSets, TLC

VARIABLES
    namespaced_job_name,  \* CalrissianExecution.namespaced_job_name: <<>> while the attribute does not exist
    namespaced_job,       \* CalrissianExecution.namespaced_job: <<>> is None
    requests,             \* the create-job requests sent to the cluster (their job names)
    submits,              \* outcome of every submit call, in order
    cluster_jobs,         \* the job resources the cluster holds (their names), in creation order
    job_status,           \* response.status of the job as the cluster reports it
    queries,              \* number of read_namespaced_job_status requests monitor issued
    hist,                 \* values returned by get_status, in call order
    preds,                \* last value returned by is_active / is_complete / is_succeeded
    mpc,                  \* position of the monitor call
    sleeps,               \* number of time.sleep calls made by monitor
    mobs,                 \* statuses monitor observed, in order
    mlog,                 \* messages monitor logged
    artifacts,            \* every get_output / get_log / get_usage_report call, in order
    arg,                  \* input of the pure function under check
    ret                   \* its result

exec_vars == <<namespaced_job_name, namespaced_job>>
cluster_vars == <<requests, cluster_jobs, job_status>>
monitor_vars == <<mpc, sleeps, mobs, mlog>>
pure_vars == <<arg, ret>>
vars == <<namespaced_job_name, namespaced_job, requests, submits, cluster_jobs,
          job_status, queries, hist, preds, mpc, sleeps, mobs, mlog, artifacts,
          arg, ret>>

-----------------------------------------------------------------------------
\* Bounds of the model
MaxPolls == 6      \* get_status calls per behaviour
MaxGets == 2       \* get_status calls made outside monitor in Spec
MaxSubmits == 2    \* submit calls per behaviour
MaxCount == 1      \* largest pod count drawn for a status field in SpecStatus
MaxArtifacts == 2  \* get_output / get_log / get_usage_report calls per behaviour

MaxTail == 6       \* free characters at the end of a shorten_namespace input
MaxPvcs == 2       \* entries of the stored "pvcs" list
MaxConditions == 2 \* entries of response.status.conditions
MaxTime == 3       \* distinct timestamps of a job status

\* Program constants
backoff_limit == 2 \* CalrissianJob.__init__ default
NameLimit == 63    \* CalrissianJob.shorten_namespace

\* Python's None for an optional value: <<>>; a present value v: <<v>>
None == <<>>
Some(v) == <<v>>
\* Python truthiness of an optional integer
Truthy(x) == x # None /\ x[1] # 0

\* JobStatus (enum values) and the None a function returns by falling off its end
ACTIVE == "active"
FAILED == "failed"
SUCCEEDED == "succeeded"
NoStatus == "None"
JobStatus == {ACTIVE, FAILED, SUCCEEDED}

-----------------------------------------------------------------------------
\* CalrissianExecution.get_status, lines 43-50: classification of response.status
get_status_failed_first(status) ==
    IF status.active = None /\ status.start_time = None THEN ACTIVE
    ELSE IF Truthy(status.active) THEN ACTIVE
    ELSE IF Truthy(status.failed) THEN FAILED
    ELSE IF Truthy(status.succeeded) THEN SUCCEEDED
    ELSE NoStatus

get_status(status) ==
    IF status.active = None /\ status.start_time = None THEN ACTIVE
    ELSE IF Truthy(status.active) THEN ACTIVE
    ELSE IF Truthy(status.succeeded) THEN SUCCEEDED
    ELSE IF Truthy(status.failed) THEN FAILED
    ELSE NoStatus

is_complete_any(s) == s \in {SUCCEEDED, FAILED, ACTIVE}

is_complete(s) == s \in {SUCCEEDED, FAILED}

is_succeeded(s) == s \in {SUCCEEDED}

is_active(s) == s \in {ACTIVE}

\* a job resource of that name exists in the namespace
InCluster(name) == \E i \in 1..Len(cluster_jobs) : cluster_jobs[i] = name

\* One call of get_status on the execution: the attribute read of
\* self.namespaced_job_name, the cluster request, the classification.
\* api_ok = FALSE: read_namespaced_job_status raises ApiException.
StatusCall(api_ok) ==
    IF namespaced_job_name = None
      THEN [raised |-> "AttributeError", queried |-> 0, value |-> NoStatus]
    ELSE IF ~api_ok \/ ~InCluster(namespaced_job_name[1])
      THEN [raised |-> "ApiException", queried |-> 1, value |-> NoStatus]
    ELSE [raised |-> "", queried |-> 1, value |-> get_status(job_status)]

Record(c) == hist' = IF c.raised = "" THEN Append(hist, c.value) ELSE hist

CanPoll == Len(hist) < MaxPolls

-----------------------------------------------------------------------------
\* CalrissianJob: the request (constructor arguments) and the manifest builder.
\* Names and paths are sequences of string pieces, so that f-strings are
\* concatenations and str.replace acts on the pieces.

\* A dict is the set of its keys; truthiness of an optional dict
TruthyDict(d) == d # None /\ d[1] # {}
\* str(x) of an optional string
Str(x) == IF x = None THEN "None" ELSE x[1]
\* truthiness of an optional string
TruthyStr(x) == x # None /\ x[1] # ""

\* CalrissianJob.__init__, lines 92-93: a falsy pod_env_vars becomes {}
init_pod_env_vars(d) == IF ~TruthyDict(d) THEN Some({}) ELSE d

calrissian_base_path == "/calrissian"
volume_calrissian_wdir == <<"volume-calrissian-wdir">>

\* os.path.join of a directory and a relative file name
path_join(a, b) == a \o "/" \o b

\* CalrissianJob._get_calrissian_args, lines 498-506: the positional arguments
positional_args(job) ==
    IF job.cwl_entry_point # None
      THEN <<"/workflow-input/workflow.cwl#" \o job.cwl_entry_point[1],
             "/workflow-params/params.yml">>
      ELSE <<"/workflow-input/workflow.cwl", "/workflow-params/params.yml">>

\* CalrissianJob._get_calrissian_args, lines 469-489: the optional arguments
optional_args_env_first(job) ==
    (IF TruthyDict(job.pod_env_vars)
       THEN <<"--pod-env-vars", path_join("/pod-env-vars", "pod_env_vars.json")>>
       ELSE <<>>)
    \o (IF TruthyDict(job.pod_node_selector)
       THEN <<"--pod-nodeselectors",
              path_join("/pod-node-selector", "pod_nodeselectors.yml")>>
       ELSE <<>>)
    \o (IF job.debug THEN <<"--debug">> ELSE <<>>)
    \o (IF job.no_read_only THEN <<"--no-read-only">> ELSE <<>>)
    \o (IF job.tool_logs
       THEN <<"--tool-logs-basepath", calrissian_base_path>> ELSE <<>>)

optional_args(job) ==
    (IF TruthyDict(job.pod_node_selector)
       THEN <<"--pod-nodeselectors",
              path_join("/pod-node-selector", "pod_nodeselectors.yml")>>
       ELSE <<>>)
    \o (IF TruthyDict(job.pod_env_vars)
       THEN <<"--pod-env-vars", path_join("/pod-env-vars", "pod_env_vars.json")>>
       ELSE <<>>)
    \o (IF job.debug THEN <<"--debug">> ELSE <<>>)
    \o (IF job.no_read_only THEN <<"--no-read-only">> ELSE <<>>)
    \o (IF job.tool_logs
       THEN <<"--tool-logs-basepath", calrissian_base_path>> ELSE <<>>)

\* CalrissianJob._get_calrissian_args, lines 445-508
_get_calrissian_args(job) ==
    <<"--stdout", path_join(calrissian_base_path, "output.json")>>
    \o <<"--stderr", path_join(calrissian_base_path, "stderr.log")>>
    \o <<"--usage-report", path_join(calrissian_base_path, "report.json")>>
    \o <<"--max-ram", job.max_ram, "--max-cores", job.max_cores>>
    \o <<"--pod-serviceaccount", job.service_account>>
    \o <<"--tmp-outdir-prefix", calrissian_base_path \o "/">>
    \o <<"--outdir", calrissian_base_path \o "/">>
    \o optional_args(job)
    \o <<"--executing-workspace", job.executing_workspace>>
    \o <<"--calling-workspace", job.calling_workspace>>
    \o <<"--calling-service-account", job.calling_service_account>>
    \o <<"--enable-ext">>
    \o positional_args(job)

-----------------------------------------------------------------------------
\* CalrissianJob.to_k8s_job: volumes and volume mounts

Volume(name, kind, source) == [name |-> name, kind |-> kind, source |-> source]
Mount(name, path) == [name |-> name, mount_path |-> path]

\* lines 206-211: the three mounts every job has
base_volumes(job) ==
    << Volume(<<"volume-cwl-workflow">>, "config_map", <<"cwl-workflow-", job.job_id>>),
       Volume(<<"volume-params">>, "config_map", <<"params-", job.job_id>>),
       Volume(volume_calrissian_wdir, "pvc", <<job.calrissian_wdir>>) >>

base_mounts(job) ==
    << Mount(<<"volume-cwl-workflow">>, <<"/workflow-input">>),
       Mount(<<"volume-params">>, <<"/workflow-params">>),
       Mount(volume_calrissian_wdir, <<calrissian_base_path>>) >>

\* lines 213-259: the optional config-map mounts
optional_volumes(job) ==
    (IF TruthyDict(job.pod_env_vars)
       THEN <<Volume(<<"volume-pod-env-vars">>, "config_map",
                     <<"pod-env-vars-", job.job_id>>)>>
       ELSE <<>>)
    \o (IF TruthyDict(job.pod_node_selector)
       THEN <<Volume(<<"volume-pod-node-selector">>, "config_map",
                     <<"pod-node-selector-", job.job_id>>)>>
       ELSE <<>>)

optional_mounts_selector_first(job) ==
    (IF TruthyDict(job.pod_node_selector)
       THEN <<Mount(<<"volume-pod-node-selector">>, <<"/pod-node-selector">>)>>
       ELSE <<>>)
    \o (IF TruthyDict(job.pod_env_vars)
       THEN <<Mount(<<"volume-pod-env-vars">>, <<"/pod-env-vars">>)>> ELSE <<>>)

optional_mounts(job) ==
    (IF TruthyDict(job.pod_env_vars)
       THEN <<Mount(<<"volume-pod-env-vars">>, <<"/pod-env-vars">>)>> ELSE <<>>)
    \o (IF TruthyDict(job.pod_node_selector)
       THEN <<Mount(<<"volume-pod-node-selector">>, <<"/pod-node-selector">>)>>
       ELSE <<>>)

\* The text stored under "pvcs" is a sequence of JSON tokens
Tok(t, pvcName, pvName) == [t |-> t, pvcName |-> pvcName, pvName |-> pvName]
LBracket == Tok("[", None, None)
RBracket == Tok("]", None, None)
Obj(pvcName, pvName) == Tok("{}", pvcName, pvName)

\* json.loads of a text holding a list of objects; err: json.JSONDecodeError
json_loads(text) ==
    IF /\ Len(text) >= 2
       /\ text[1] = LBracket
       /\ text[Len(text)] = RBracket
       /\ \A i \in 2..(Len(text) - 1) : text[i].t = "{}"
      THEN [err |-> FALSE,
            value |-> [i \in 1..(Len(text) - 2) |->
                         [pvcName |-> text[i + 1].pvcName,
                          pvName |-> text[i + 1].pvName]]]
      ELSE [err |-> TRUE, value |-> <<>>]

\* lines 261-265: the read of the 'workspace-config' ConfigMap; None on failure
read_workspace_config(env) ==
    IF env.config.ok THEN Some(env.config.data) ELSE None

\* line 266: workspace_config.data.get("pvcs", "[]"); raises AttributeError on None
pvcs_json(workspace_config) ==
    IF workspace_config = None
      THEN [raised |-> "AttributeError", text |-> <<>>]
    ELSE IF workspace_config[1] = None
      THEN [raised |-> "", text |-> <<LBracket, RBracket>>]
    ELSE [raised |-> "", text |-> workspace_config[1][1]]

\* lines 267-271: an unparseable list degrades to []
pvcs_list(text) ==
    LET parsed == json_loads(text) IN
    IF parsed.err THEN <<>> ELSE parsed.value

\* line 276: the registry entries that are mounted
is_mounted(pvc_map, env) ==
    TruthyStr(pvc_map.pvcName) /\ pvc_map.pvcName[1] \in env.created_pvcs

\* lines 273-294: one volume and one mount per mounted registry entry
RECURSIVE workspace_volumes(_, _)
workspace_volumes(list, env) ==
    IF list = <<>> THEN <<>>
    ELSE (IF is_mounted(Head(list), env)
            THEN <<Volume(<<"workspace-efs-", Head(list).pvcName[1]>>, "pvc",
                          <<Head(list).pvcName[1]>>)>>
            ELSE <<>>)
         \o workspace_volumes(Tail(list), env)

RECURSIVE workspace_mounts(_, _)
workspace_mounts(list, env) ==
    IF list = <<>> THEN <<>>
    ELSE (IF is_mounted(Head(list), env)
            THEN <<Mount(<<"workspace-efs-", Head(list).pvcName[1]>>,
                         <<"/workspace/", Str(Head(list).pvName)>>)>>
            ELSE <<>>)
         \o workspace_mounts(Tail(list), env)

\* line 297: cross-workspace mounts are needed
needs_cross_workspace_always(job) == TRUE

needs_cross_workspace(job) == job.calling_workspace # job.executing_workspace

\* lines 323-326: access point name -> persistent volume name, later entries win
pv_name_map(persistent_volumes) ==
    [ap \in {persistent_volumes[i].accessPointName :
                i \in 1..Len(persistent_volumes)} |->
        LET last == CHOOSE i \in 1..Len(persistent_volumes) :
                      /\ persistent_volumes[i].accessPointName = ap
                      /\ \A k \in (i + 1)..Len(persistent_volumes) :
                           persistent_volumes[k].accessPointName # ap
        IN persistent_volumes[last].name]

\* line 330: str.replace(old, "", 1) on a name given by its pieces
RECURSIVE replace_first(_, _)
replace_first(pieces, old) ==
    IF pieces = <<>> THEN <<>>
    ELSE IF Head(pieces) = old THEN Tail(pieces)
    ELSE <<Head(pieces)>> \o replace_first(Tail(pieces), old)

\* lines 328-352: one temporary volume and mount per access point;
\* a name missing from pv_name_map raises KeyError
RECURSIVE cross_volumes(_, _)
cross_volumes(access_points, map) ==
    IF access_points = <<>> THEN <<>>
    ELSE LET basic_pv_name == replace_first(map[Head(access_points)], "pv-") IN
         <<Volume(<<"temp-pv-">> \o basic_pv_name, "pvc",
                  <<"temp-pvc-workspace-">> \o basic_pv_name)>>
         \o cross_volumes(Tail(access_points), map)

RECURSIVE cross_mounts(_, _)
cross_mounts(access_points, map) ==
    IF access_points = <<>> THEN <<>>
    ELSE LET pvc_mount_path == map[Head(access_points)]
             basic_pv_name == replace_first(pvc_mount_path, "pv-") IN
         <<Mount(<<"temp-pv-">> \o basic_pv_name,
                 <<"/workspace/">> \o pvc_mount_path)>>
         \o cross_mounts(Tail(access_points), map)

\* lines 296-352: the calling workspace's volumes
cross_workspace(job, env) ==
    IF ~needs_cross_workspace(job)
      THEN [raised |-> "", fetched |-> FALSE, log |-> <<>>,
            volumes |-> <<>>, mounts |-> <<>>]
    ELSE IF ~env.incluster_ok
      THEN [raised |-> "ConfigException", fetched |-> FALSE, log |-> <<>>,
            volumes |-> <<>>, mounts |-> <<>>]
    ELSE IF ~env.cr.ok
      THEN [raised |-> "ApiException", fetched |-> TRUE,
            log |-> <<"Error in getting workspace CRD">>,
            volumes |-> <<>>, mounts |-> <<>>]
    ELSE LET map == pv_name_map(env.cr.persistent_volumes)
             aps == env.cr.access_points IN
         IF \E i \in 1..Len(aps) : aps[i] \notin DOMAIN map
           THEN [raised |-> "KeyError", fetched |-> TRUE, log |-> <<>>,
                 volumes |-> <<>>, mounts |-> <<>>]
           ELSE [raised |-> "", fetched |-> TRUE, log |-> <<>>,
                 volumes |-> cross_volumes(aps, map),
                 mounts |-> cross_mounts(aps, map)]

\* lines 366-371: the manifest carries the job name made at construction
manifest_name_job_id(job) == <<job.job_id>>

manifest_name(job) == job.job_name

\* CalrissianJob.to_k8s_job, lines 155-371. raised = "": the manifest is
\* returned; otherwise the named exception leaves the call and there is none.
to_k8s_job(job, env) ==
    LET workspace_config == read_workspace_config(env)
        log1 == IF workspace_config = None
                  THEN <<"Failed to read 'workspace-config' ConfigMap">> ELSE <<>>
        pj == pvcs_json(workspace_config)
    IN
    IF pj.raised # ""
      THEN [raised |-> pj.raised, manifest |-> None, fetched_cr |-> FALSE,
            log |-> log1]
    ELSE
    LET list == pvcs_list(pj.text)
        log2 == IF json_loads(pj.text).err
                  THEN <<"Error parsing PVCs JSON">> ELSE <<>>
        cw == cross_workspace(job, env)
    IN
    IF cw.raised # ""
      THEN [raised |-> cw.raised, manifest |-> None, fetched_cr |-> cw.fetched,
            log |-> log1 \o log2 \o cw.log]
      ELSE [raised |-> "",
            manifest |-> Some(
              [name |-> manifest_name(job),
               volumes |-> base_volumes(job) \o optional_volumes(job)
                           \o workspace_volumes(list, env) \o cw.volumes,
               volume_mounts |-> base_mounts(job) \o optional_mounts(job)
                           \o workspace_mounts(list, env) \o cw.mounts,
               args |-> _get_calrissian_args(job),
               backoff_limit |-> job.backoff_limit]),
            fetched_cr |-> cw.fetched,
            log |-> log1 \o log2 \o cw.log]

-----------------------------------------------------------------------------
\* CalrissianJob.shorten_namespace, lines 549-556; a string is the sequence
\* of its characters

DropLast(value) == SubSeq(value, 1, Len(value) - 1)

\* lines 554-555
RECURSIVE strip_trailing_hyphens(_)
strip_trailing_hyphens(value) ==
    IF value # <<>> /\ value[Len(value)] = "-"
      THEN strip_trailing_hyphens(DropLast(value))
      ELSE value

RECURSIVE shorten_namespace_truncate_only(_)
shorten_namespace_truncate_only(value) ==
    IF Len(value) > NameLimit
      THEN shorten_namespace_truncate_only(DropLast(value))
      ELSE value

RECURSIVE shorten_namespace(_)
shorten_namespace(value) ==
    IF Len(value) > NameLimit
      THEN shorten_namespace(strip_trailing_hyphens(DropLast(value)))
      ELSE value

Rep(c, n) == [i \in 1..n |-> c]

\* str(uuid.uuid4()): 8-4-4-4-12 hexadecimal digits
uuid4_str ==
    Rep("x", 8) \o <<"-">> \o Rep("x", 4) \o <<"-">> \o Rep("x", 4) \o <<"-">>
    \o Rep("x", 4) \o <<"-">> \o Rep("x", 12)

\* CalrissianJob.__init__, lines 80-84: the job name, for a timestamp that
\* prints as ts_digits digits once its '.' is removed
job_name_raw(ts_digits) ==
    <<"j", "o", "b", "-">> \o Rep("0", ts_digits) \o <<"-">> \o uuid4_str

job_name(ts_digits) == shorten_namespace(job_name_raw(ts_digits))

-----------------------------------------------------------------------------
\* Inputs

\* The sequences over S of length at most n
RECURSIVE SeqsUpTo(_, _)
SeqsUpTo(S, n) ==
    IF n = 0 THEN {<<>>}
    ELSE LET shorter == SeqsUpTo(S, n - 1) IN
         shorter \cup {Append(q, x) : q \in shorter, x \in S}

\* response.status of read_namespaced_job_status
Counts == {None} \cup {Some(n) : n \in 0..MaxCount}
StatusFields ==
    [active : Counts, start_time : {None, Some(1)},
     succeeded : Counts, failed : Counts]
NewJobStatus ==
    [active |-> None, start_time |-> None, succeeded |-> None, failed |-> None]

\* shorten_namespace inputs: a body of letters around the limit, then a free tail
ShortenStrings ==
    {Rep("a", b) \o t : b \in (NameLimit - MaxTail)..(NameLimit + 1),
                        t \in SeqsUpTo({"a", "-"}, MaxTail)}
\* digits of str(datetime.now().timestamp()) without its '.'
TsDigits == 10..17
ShortenInputs ==
    {[generated |-> FALSE, ts_digits |-> 0, value |-> v] : v \in ShortenStrings}
    \cup {[generated |-> TRUE, ts_digits |-> n, value |-> job_name_raw(n)] :
             n \in TsDigits}

\* Constructor arguments of CalrissianJob, with the job name the constructor
\* generates, given by its pieces
OptDicts == {None, Some({}), Some({"k"})}
Request(env_vars, node_selector, debug, no_read_only, tool_logs, entry, calling) ==
    [pod_env_vars |-> env_vars, pod_node_selector |-> node_selector,
     debug |-> debug, no_read_only |-> no_read_only, tool_logs |-> tool_logs,
     cwl_entry_point |-> entry, calling_workspace |-> calling,
     executing_workspace |-> "ws-a", job_id |-> "id1",
     max_ram |-> "8G", max_cores |-> "16", backoff_limit |-> backoff_limit,
     service_account |-> "sa-exec", calling_service_account |-> "sa-call",
     calrissian_wdir |-> "calrissian-wdir",
     job_name |-> <<"job-", "<timestamp>", "-", "<uuid4>">>]

ArgsRequests ==
    {Request(e, n, d, r, t, p, "ws-a") :
        e \in OptDicts, n \in OptDicts, d \in BOOLEAN, r \in BOOLEAN,
        t \in BOOLEAN, p \in {None, Some(""), Some("main")}}

BuildRequests ==
    {Request(e, n, FALSE, FALSE, FALSE, None, c) :
        e \in {None, Some({"k"})}, n \in {None, Some({"k"})},
        c \in {"ws-a", "ws-b"}}

\* CalrissianJob.__init__, lines 51-103: the attributes of the built object
CalrissianJob(request) ==
    [request EXCEPT !.pod_env_vars = init_pod_env_vars(request.pod_env_vars)]

\* What the cluster answers during to_k8s_job
PvcEntries ==
    {Obj(None, Some("x")), Obj(Some("pvc-x"), Some("pv-x")), Obj(Some("pvc-y"), None)}
PvcTexts ==
    {<<LBracket>> \o q \o <<RBracket>> : q \in SeqsUpTo(PvcEntries, MaxPvcs)}
    \cup {<<>>, <<LBracket, Obj(Some("pvc-x"), Some("pv-x"))>>}
Configs ==
    {[ok |-> FALSE, data |-> None], [ok |-> TRUE, data |-> None]}
    \cup {[ok |-> TRUE, data |-> Some(t)] : t \in PvcTexts}
PersistentVolume(name, ap) == [name |-> name, accessPointName |-> ap]
CustomResources ==
    {[ok |-> FALSE, access_points |-> <<>>, persistent_volumes |-> <<>>]}
    \cup {[ok |-> TRUE, access_points |-> a, persistent_volumes |-> p] :
            a \in {<<>>, <<"ap1">>, <<"ap1", "ap2">>},
            p \in {<<PersistentVolume(<<"pv-", "data">>, "ap1")>>,
                   <<PersistentVolume(<<"pv-", "data">>, "ap1"),
                     PersistentVolume(<<"scratch">>, "ap2")>>,
                   <<PersistentVolume(<<"scratch">>, "ap2"),
                     PersistentVolume(<<"pv-", "data">>, "ap1"),
                     PersistentVolume(<<"my-", "pv-", "pv-", "x">>, "ap2")>>}}
BuildEnvs ==
    [config : Configs, created_pvcs : SUBSET {"pvc-x", "pvc-y"},
     incluster_ok : BOOLEAN, cr : CustomResources]

\* The request of the lifecycle specification and the answers drawn at submit
TheRequest == Request(None, None, FALSE, FALSE, FALSE, None, "ws-b")
SubmitEnvs ==
    [config : {[ok |-> FALSE, data |-> None], [ok |-> TRUE, data |-> None]},
     created_pvcs : {{}}, incluster_ok : {TRUE},
     cr : {c \in CustomResources : Len(c.persistent_volumes) <= 1 /\ Len(c.access_points) <= 1}]

-----------------------------------------------------------------------------
\* The execution lifecycle (CalrissianExecution)

TheJob == CalrissianJob(TheRequest)

NoPreds == [is_active |-> None, is_complete |-> None, is_succeeded |-> None]

\* CalrissianExecution.__init__, lines 20-23: namespaced_job_name is not set
ExecutionInit ==
    /\ namespaced_job_name = None
    /\ namespaced_job = None
    /\ submits = <<>>
    /\ queries = 0
    /\ hist = <<>>
    /\ preds = NoPreds
    /\ mpc = "idle"
    /\ sleeps = 0
    /\ mobs = <<>>
    /\ mlog = <<>>
    /\ artifacts = <<>>

Init ==
    /\ ExecutionInit
    /\ requests = <<>>
    /\ cluster_jobs = <<>>
    /\ job_status = NewJobStatus
    /\ arg = None
    /\ ret = None

\* monitor blocks its caller: no other call on the execution runs meanwhile
NotMonitoring == mpc \in {"idle", "done", "raised"}

\* create_namespaced_job at the cluster: a job name is taken once per namespace
cluster_accepts(name, api_ok) == api_ok /\ ~InCluster(name)

\* CalrissianExecution.submit, lines 25-33
Submit ==
    /\ NotMonitoring
    /\ Len(submits) < MaxSubmits
    /\ \E env \in SubmitEnvs, api_ok \in BOOLEAN :
         LET built == to_k8s_job(TheJob, env) IN
         IF built.raised # ""
           THEN /\ submits' = Append(submits, "build:" \o built.raised)
                /\ UNCHANGED <<exec_vars, cluster_vars>>
           ELSE LET name == built.manifest[1].name IN
                /\ requests' = Append(requests, name)
                /\ IF cluster_accepts(name, api_ok)
                     THEN /\ cluster_jobs' = Append(cluster_jobs, name)
                          /\ job_status' = NewJobStatus
                          /\ namespaced_job_name' = Some(TheJob.job_name)
                          /\ namespaced_job' = Some(name)
                          /\ submits' = Append(submits, "ok")
                     ELSE /\ submits' = Append(submits, "create:ApiException")
                          /\ UNCHANGED <<exec_vars, cluster_jobs, job_status>>
    /\ UNCHANGED <<queries, hist, preds, monitor_vars, pure_vars, artifacts>>

\* CalrissianExecution.get_status, lines 35-53, called on its own
GetStatus ==
    /\ NotMonitoring
    /\ Len(hist) - Len(mobs) < MaxGets
    /\ CanPoll
    /\ \E api_ok \in BOOLEAN : Record(StatusCall(api_ok))
    /\ UNCHANGED <<exec_vars, cluster_vars, submits, queries, preds, monitor_vars,
                   pure_vars, artifacts>>

\* The three predicates, lines 55-74, called on their own
predicate_value(name, s) ==
    CASE name = "is_complete" -> is_complete(s)
      [] name = "is_succeeded" -> is_succeeded(s)
      [] name = "is_active" -> is_active(s)

Predicate(name) ==
    /\ CanPoll
    /\ \E api_ok \in BOOLEAN :
         LET c == StatusCall(api_ok) IN
         /\ Record(c)
         /\ preds' = IF c.raised = ""
                       THEN [preds EXCEPT ![name] =
                               Some([status |-> c.value,
                                     value |-> predicate_value(name, c.value)])]
                       ELSE preds
    /\ UNCHANGED <<exec_vars, cluster_vars, submits, queries, monitor_vars, pure_vars, artifacts>>

IsComplete ==
    /\ NotMonitoring
    /\ Predicate("is_complete")

IsSucceeded ==
    /\ NotMonitoring
    /\ Predicate("is_succeeded")

IsActive ==
    /\ NotMonitoring
    /\ Predicate("is_active")

\* The job controller of the cluster, as seen through the job's status
JobExists == InCluster(TheJob.job_name)
ClusterStep(new_status) ==
    /\ JobExists
    /\ job_status' = new_status
    /\ UNCHANGED <<exec_vars, requests, cluster_jobs, submits, queries, hist,
                   preds, monitor_vars, pure_vars, artifacts>>

ClusterStartPod ==
    /\ job_status.start_time = None
    /\ ClusterStep([job_status EXCEPT !.start_time = Some(1), !.active = Some(1)])

ClusterPodSucceeds ==
    /\ Truthy(job_status.active)
    /\ ClusterStep([job_status EXCEPT !.active = None, !.succeeded = Some(1)])

ClusterPodFails ==
    /\ Truthy(job_status.active)
    /\ ClusterStep([job_status EXCEPT
                      !.active = None,
                      !.failed = IF @ = None THEN Some(1) ELSE Some(@[1] + 1)])

\* a failed pod is replaced while the failures do not exceed backoff_limit
ClusterRetryPod ==
    /\ job_status.start_time # None
    /\ job_status.active = None
    /\ job_status.succeeded = None
    /\ job_status.failed # None
    /\ job_status.failed[1] <= TheJob.backoff_limit
    /\ ClusterStep([job_status EXCEPT !.active = Some(1)])

\* CalrissianExecution.monitor, lines 145-159, one step per status poll or sleep

\* line 147
IfNext_sleeps(s) == IF is_active(s) THEN "sleep" ELSE "done"

IfNext(s) == IF is_active(s) THEN "while" ELSE "done"
IfLog(s) == IF is_active(s) THEN <<>> ELSE <<"job is not submitted">>

\* line 149
WhileNext(s) == IF is_active(s) THEN "sleep" ELSE "complete"

\* line 153
CompleteNext(s) == IF is_complete(s) THEN "complete_log" ELSE "succeeded"

\* line 154: the message evaluates is_complete() again
CompleteLog(s) ==
    IF is_complete(s) THEN <<"exection is complete True">>
    ELSE <<"exection is complete False">>

\* lines 155-156
SucceededLog(s) == IF is_succeeded(s) THEN <<"outcome: success!">> ELSE <<>>

\* where monitor continues after the status poll made at position pos
next_pc(pos, s) ==
    CASE pos = "idle" -> IfNext(s)
      [] pos = "while" -> WhileNext(s)
      [] pos = "complete" -> CompleteNext(s)
      [] pos = "complete_log" -> "succeeded"
      [] pos = "succeeded" -> "done"

\* what monitor logs after the status poll made at position pos
logged(pos, s) ==
    CASE pos = "idle" -> IfLog(s)
      [] pos = "while" -> <<>>
      [] pos = "complete" -> <<>>
      [] pos = "complete_log" -> CompleteLog(s)
      [] pos = "succeeded" -> SucceededLog(s)

\* a status poll of monitor: is_active(), is_complete() or is_succeeded()
MonitorPoll(pos) ==
    /\ CanPoll
    /\ \E api_ok \in BOOLEAN :
         LET c == StatusCall(api_ok) IN
         /\ Record(c)
         /\ queries' = queries + c.queried
         /\ IF c.raised # ""
              THEN /\ mpc' = "raised"
                   /\ UNCHANGED <<mobs, mlog>>
              ELSE /\ mpc' = next_pc(pos, c.value)
                   /\ mobs' = Append(mobs, c.value)
                   /\ mlog' = mlog \o logged(pos, c.value)
    /\ UNCHANGED <<exec_vars, cluster_vars, submits, preds, sleeps, pure_vars, artifacts>>

MonitorIf ==
    /\ mpc = "idle"
    /\ MonitorPoll("idle")

MonitorWhile ==
    /\ mpc = "while"
    /\ MonitorPoll("while")

\* lines 150-151
MonitorSleep ==
    /\ mpc = "sleep"
    /\ sleeps' = sleeps + 1
    /\ mpc' = "while"
    /\ UNCHANGED <<exec_vars, cluster_vars, submits, queries, hist, preds,
                   mobs, mlog, pure_vars, artifacts>>

MonitorComplete ==
    /\ mpc = "complete"
    /\ MonitorPoll("complete")

MonitorCompleteLog ==
    /\ mpc = "complete_log"
    /\ MonitorPoll("complete_log")

MonitorSucceeded ==
    /\ mpc = "succeeded"
    /\ MonitorPoll("succeeded")

Monitor ==
    \/ MonitorIf
    \/ MonitorWhile
    \/ MonitorSleep
    \/ MonitorComplete
    \/ MonitorCompleteLog
    \/ MonitorSucceeded

Cluster ==
    \/ ClusterStartPod
    \/ ClusterPodSucceeds
    \/ ClusterPodFails
    \/ ClusterRetryPod

Next ==
    \/ Submit
    \/ GetStatus
    \/ Monitor
    \/ Cluster

Spec == Init /\ [][Next]_vars

-----------------------------------------------------------------------------
\* Status classification on a submitted job, for every status the cluster
\* can report: the job is in the cluster and its status does not change.

InitStatus ==
    /\ namespaced_job_name = Some(TheJob.job_name)
    /\ namespaced_job = Some(TheJob.job_name)
    /\ submits = <<"ok">>
    /\ queries = 0
    /\ hist = <<>>
    /\ preds = NoPreds
    /\ mpc = "idle"
    /\ sleeps = 0
    /\ mobs = <<>>
    /\ mlog = <<>>
    /\ artifacts = <<>>
    /\ requests = <<TheJob.job_name>>
    /\ cluster_jobs = <<TheJob.job_name>>
    /\ job_status \in StatusFields
    /\ arg = None
    /\ ret = None

NextStatus ==
    \/ GetStatus
    \/ IsComplete
    \/ IsSucceeded
    \/ IsActive

SpecStatus == InitStatus /\ [][NextStatus]_vars

-----------------------------------------------------------------------------
\* Artifact retrieval: get_output, get_log, get_usage_report on a submitted
\* job while the job controller moves the job through its statuses.

\* job.py, class ContainerNames: the members the enum defines
ContainerNames == [CALRISSIAN |-> "calrissian"]

\* evaluation of ContainerNames.<member>
container_member(member) ==
    IF member \in DOMAIN ContainerNames
      THEN [raised |-> "", value |-> Some(ContainerNames[member])]
      ELSE [raised |-> "AttributeError", value |-> None]

\* lines 78, 83, 88: self.is_succeeded and self.is_complete are named without
\* a call; the condition is the truth value of the bound method object
bound_method_truth == TRUE

\* What the cluster answers to the pod requests of one call
PodAnswers == [list_ok : BOOLEAN, has_pod : BOOLEAN, read_ok : BOOLEAN,
               log_is_json : BOOLEAN]

\* CalrissianExecution._get_container_log, lines 91-113
_get_container_log(container, answer) ==
    IF ~answer.list_ok
      THEN [raised |-> "ApiException", requests |-> <<"list_namespaced_pod">>,
            value |-> None]
    ELSE IF ~answer.has_pod
      THEN [raised |-> "IndexError", requests |-> <<"list_namespaced_pod">>,
            value |-> None]
    ELSE IF ~answer.read_ok
      THEN [raised |-> "ApiException",
            requests |-> <<"list_namespaced_pod", "read_namespaced_pod_log">>,
            value |-> None]
    ELSE [raised |-> "",
          requests |-> <<"list_namespaced_pod", "read_namespaced_pod_log">>,
          value |-> Some(<<"log", container>>)]

\* json.loads of a container log
json_loads_log(got, answer) ==
    IF got.raised # "" THEN got
    ELSE IF answer.log_is_json THEN [got EXCEPT !.value = Some(<<"json", got.value[1]>>)]
    ELSE [got EXCEPT !.raised = "JSONDecodeError", !.value = None]

\* the body shared by the three methods: the guard, the enum member, the log
retrieve(member, answer) ==
    IF ~bound_method_truth
      THEN [raised |-> "", requests |-> <<>>, value |-> None]
    ELSE LET c == container_member(member) IN
         IF c.raised # ""
           THEN [raised |-> c.raised, requests |-> <<>>, value |-> None]
           ELSE _get_container_log(c.value[1], answer)

\* lines 76-79
get_output(answer) == json_loads_log(retrieve("SIDECAR_OUTPUT", answer), answer)
\* lines 81-84
get_log(answer) == retrieve("CALRISSIAN", answer)
\* lines 86-89
get_usage_report(answer) == json_loads_log(retrieve("SIDECAR_USAGE", answer), answer)

artifact_result(call, answer) ==
    CASE call = "get_output" -> get_output(answer)
      [] call = "get_log" -> get_log(answer)
      [] call = "get_usage_report" -> get_usage_report(answer)

\* One call; status is the job status at the time of the call, as get_status
\* classifies it (the call itself does not ask for it)
Artifact(call) ==
    /\ Len(artifacts) < MaxArtifacts
    /\ \E answer \in PodAnswers :
         LET got == artifact_result(call, answer) IN
         artifacts' = Append(artifacts,
                             [call |-> call, status |-> get_status(job_status),
                              requests |-> got.requests, raised |-> got.raised,
                              value |-> got.value])
    /\ UNCHANGED <<exec_vars, cluster_vars, submits, queries, hist, preds,
                   monitor_vars, pure_vars>>

GetOutput ==
    /\ NotMonitoring
    /\ Artifact("get_output")

GetLog ==
    /\ NotMonitoring
    /\ Artifact("get_log")

GetUsageReport ==
    /\ NotMonitoring
    /\ Artifact("get_usage_report")

\* the state after a successful submit
InitArtifacts ==
    /\ namespaced_job_name = Some(TheJob.job_name)
    /\ namespaced_job = Some(TheJob.job_name)
    /\ submits = <<"ok">>
    /\ queries = 0
    /\ hist = <<>>
    /\ preds = NoPreds
    /\ mpc = "idle"
    /\ sleeps = 0
    /\ mobs = <<>>
    /\ mlog = <<>>
    /\ artifacts = <<>>
    /\ requests = <<TheJob.job_name>>
    /\ cluster_jobs = <<TheJob.job_name>>
    /\ job_status = NewJobStatus
    /\ arg = None
    /\ ret = None

NextArtifacts ==
    \/ GetOutput
    \/ GetLog
    \/ GetUsageReport
    \/ Cluster

SpecArtifacts == InitArtifacts /\ [][NextArtifacts]_vars


-----------------------------------------------------------------------------
\* Completion time of a submitted job, for the completion_time and the
\* conditions the cluster reports in response.status.

\* lines 137-140 of get_completion_time; a condition is given by its
\* last_transition_time, conditions[0] of an empty list raises IndexError
get_completion_time(status) ==
    IF status.completion_time # None
      THEN [raised |-> "", value |-> status.completion_time]
    ELSE IF status.conditions # None
      THEN IF status.conditions[1] = <<>>
             THEN [raised |-> "IndexError", value |-> None]
             ELSE [raised |-> "",
                   value |-> Some(status.conditions[1][1].last_transition_time)]
    ELSE [raised |-> "", value |-> None]

\* response.status as far as get_completion_time reads it
Times == 1..MaxTime
JobCondition(t) == [last_transition_time |-> t]
TimeStatuses ==
    [completion_time : {None} \cup {Some(t) : t \in Times},
     conditions : {None} \cup {Some(q) : q \in SeqsUpTo({JobCondition(t) : t \in Times},
                                                        MaxConditions)}]

\* the state after a successful submit; arg is the status the cluster reports
InitCompletion ==
    /\ namespaced_job_name = Some(TheJob.job_name)
    /\ namespaced_job = Some(TheJob.job_name)
    /\ submits = <<"ok">>
    /\ queries = 0
    /\ hist = <<>>
    /\ preds = NoPreds
    /\ mpc = "idle"
    /\ sleeps = 0
    /\ mobs = <<>>
    /\ mlog = <<>>
    /\ artifacts = <<>>
    /\ requests = <<TheJob.job_name>>
    /\ cluster_jobs = <<TheJob.job_name>>
    /\ job_status = NewJobStatus
    /\ arg \in TimeStatuses
    /\ ret = None

\* CalrissianExecution.get_completion_time, lines 129-143
GetCompletionTime ==
    /\ ret = None
    /\ namespaced_job_name # None
    /\ \E api_ok \in BOOLEAN :
         ret' = Some(IF api_ok /\ InCluster(namespaced_job_name[1])
                       THEN get_completion_time(arg)
                       ELSE [raised |-> "ApiException", value |-> None])
    /\ UNCHANGED <<exec_vars, cluster_vars, submits, queries, hist, preds,
                   monitor_vars, arg, artifacts>>

SpecCompletion == InitCompletion /\ [][GetCompletionTime]_vars

-----------------------------------------------------------------------------
\* The pure functions of CalrissianJob, each applied once to a drawn input

PureInit(inputs) ==
    /\ ExecutionInit
    /\ requests = <<>>
    /\ cluster_jobs = <<>>
    /\ job_status = NewJobStatus
    /\ arg \in inputs
    /\ ret = None

Apply(result) ==
    /\ ret' = Some(result)
    /\ UNCHANGED <<exec_vars, cluster_vars, submits, queries, hist, preds,
                   monitor_vars, arg, artifacts>>

InitShorten == PureInit(ShortenInputs)
Shorten ==
    /\ ret = None
    /\ Apply(IF arg.generated THEN job_name(arg.ts_digits)
             ELSE shorten_namespace(arg.value))
SpecShorten == InitShorten /\ [][Shorten]_vars

InitArgs == PureInit(ArgsRequests)
GetArgs ==
    /\ ret = None
    /\ Apply(_get_calrissian_args(CalrissianJob(arg)))
SpecArgs == InitArgs /\ [][GetArgs]_vars

InitBuild == PureInit(BuildRequests \X BuildEnvs)
Build ==
    /\ ret = None
    /\ Apply(to_k8s_job(CalrissianJob(arg[1]), arg[2]))
SpecBuild == InitBuild /\ [][Build]_vars

-----------------------------------------------------------------------------
\* Properties

Absent(x) == x = None
Nonzero(x) == x # None /\ x[1] > 0
Last(q) == q[Len(q)]
IsPrefix(p, q) == Len(p) <= Len(q) /\ SubSeq(q, 1, Len(p)) = p
Count(q, x) == Cardinality({i \in 1..Len(q) : q[i] = x})

\* C1: every value get_status returns follows the precedence: active and
\* start_time both absent gives ACTIVE; else active present and nonzero gives
\* ACTIVE; else succeeded nonzero gives SUCCEEDED; else failed nonzero gives
\* FAILED. So a job with succeeded and failed both nonzero and no active pod
\* is SUCCEEDED.
C1_StatusPrecedence ==
    \A i \in 1..Len(hist) :
      LET r == hist[i]
          unscheduled == Absent(job_status.active) /\ Absent(job_status.start_time)
          running == Nonzero(job_status.active)
          succeeded == Nonzero(job_status.succeeded)
          failed == Nonzero(job_status.failed)
      IN /\ unscheduled => r = ACTIVE
         /\ (~unscheduled /\ running) => r = ACTIVE
         /\ (~unscheduled /\ ~running /\ succeeded) => r = SUCCEEDED
         /\ (~unscheduled /\ ~running /\ ~succeeded /\ failed) => r = FAILED

\* C1 witness: get_status has answered SUCCEEDED for a started job without
\* active pods whose succeeded and failed counts are both nonzero
C1_Witness ==
    /\ hist # <<>>
    /\ hist[1] = SUCCEEDED
    /\ job_status = [active |-> None, start_time |-> Some(1),
                     succeeded |-> Some(1), failed |-> Some(1)]

\* The number of ACTIVE values monitor observed before the first other value
RECURSIVE LeadActive(_)
LeadActive(q) ==
    IF q # <<>> /\ Head(q) = ACTIVE THEN 1 + LeadActive(Tail(q)) ELSE 0

\* C2 as stated: once monitor has observed ACTIVE, ACTIVE, SUCCEEDED it has
\* slept exactly twice, is finished and has reported success, having needed
\* no further status; and a finished monitor has slept once per ACTIVE it
\* observed and stopped polling at the first value that is not ACTIVE.
C2_TwoSleepsThenDone ==
    /\ (Len(mobs) >= 3 /\ SubSeq(mobs, 1, 3) = <<ACTIVE, ACTIVE, SUCCEEDED>>)
         => /\ mpc = "done"
            /\ sleeps = 2
            /\ Len(mobs) = 3
            /\ Count(mlog, "outcome: success!") = 1
    /\ (mpc = "done" /\ mobs # <<>>)
         => /\ sleeps = Count(mobs, ACTIVE)
            /\ \A i \in 1..(Len(mobs) - 1) : mobs[i] = ACTIVE

\* C2 amended: the first ACTIVE is consumed by the initial is_active() check,
\* so a finished monitor that started on ACTIVE has slept once per ACTIVE
\* observed after the first one; after the first value that is not ACTIVE it
\* polls again for is_complete(), once more for the log message when that was
\* true, and for is_succeeded(), and it reports success exactly when that
\* last poll returns SUCCEEDED. On ACTIVE, ACTIVE, SUCCEEDED it has slept once
\* and is not finished; a monitor whose first poll is not ACTIVE warns and
\* returns after that single poll.
C2_MonitorPolls ==
    /\ (Len(mobs) >= 3 /\ SubSeq(mobs, 1, 3) = <<ACTIVE, ACTIVE, SUCCEEDED>>)
         => /\ sleeps = 1
            /\ (Len(mobs) = 3 => mpc \in {"complete", "raised"})
            /\ (mpc = "done" => Len(mobs) = 6)
    /\ (mpc = "done" /\ mobs # <<>> /\ mobs[1] = ACTIVE)
         => LET lead == LeadActive(mobs) IN
            /\ lead < Len(mobs)
            /\ sleeps = lead - 1
            /\ Len(mobs) - lead = IF is_complete(mobs[lead + 2]) THEN 4 ELSE 3
            /\ (Count(mlog, "outcome: success!") = 1) <=> (Last(mobs) = SUCCEEDED)
            /\ Count(mlog, "job is not submitted") = 0
    /\ (mpc = "done" /\ mobs # <<>> /\ mobs[1] # ACTIVE)
         => /\ sleeps = 0
            /\ Len(mobs) = 1
            /\ mlog = <<"job is not submitted">>

\* C2 witness: monitor has finished on ACTIVE, ACTIVE, SUCCEEDED followed by
\* three more SUCCEEDED polls, after one sleep, reporting success
C2_Witness ==
    /\ mpc = "done"
    /\ mobs = <<ACTIVE, ACTIVE, SUCCEEDED, SUCCEEDED, SUCCEEDED, SUCCEEDED>>
    /\ sleeps = 1
    /\ Last(mlog) = "outcome: success!"

\* C3 as stated: once a get_status call has returned SUCCEEDED or FAILED, no
\* later call on the same execution returns ACTIVE
C3_NoRevertToActive ==
    \A i \in 1..Len(hist) : \A j \in (i + 1)..Len(hist) :
      hist[i] \in {SUCCEEDED, FAILED} => hist[j] # ACTIVE

\* C4 as stated: monitor called on an execution on which submit was never
\* called logs the warning and returns normally, without a sleep, a status
\* query or an error
C4_UnsubmittedMonitorWarns ==
    (submits = <<>> /\ mpc # "idle")
      => /\ mpc = "done"
         /\ mlog = <<"job is not submitted">>
         /\ sleeps = 0
         /\ queries = 0

\* A volume or mount of a built manifest that belongs to the workspace
\* registry, or to the calling workspace
IsWorkspaceName(name) == name[1] = "workspace-efs-"
IsTempName(name) == name[1] = "temp-pv-"
IsTempVolume(v) == IsTempName(v.name) /\ v.source[1] = "temp-pvc-workspace-"
Names(q) == {q[i].name : i \in 1..Len(q)}
Elems(q) == {q[i] : i \in 1..Len(q)}

\* C5 as stated: when no cross-workspace mount is needed, a failed read of
\* 'workspace-config' is logged and the build still returns a manifest without
\* any workspace storage mount, and so does an unparseable "pvcs" text
C5_ConfigReadDegrades ==
    (ret # None /\ arg[1].calling_workspace = arg[1].executing_workspace)
      => LET built == ret[1]
             config == arg[2].config
             degraded ==
               /\ built.raised = ""
               /\ built.manifest # None
               /\ \A n \in Names(built.manifest[1].volumes) : ~IsWorkspaceName(n)
               /\ \A n \in Names(built.manifest[1].volume_mounts) : ~IsWorkspaceName(n)
         IN /\ ~config.ok
                => degraded /\ Count(built.log, "Failed to read 'workspace-config' ConfigMap") = 1
            /\ (config.ok /\ config.data # None /\ json_loads(config.data[1]).err)
                => degraded /\ Count(built.log, "Error parsing PVCs JSON") = 1

C7_PredicatesOfStatus ==
    /\ \A p \in DOMAIN preds :
         (preds[p] # None /\ preds[p][1].status \in JobStatus)
           => LET st == preds[p][1].status
                  v == preds[p][1].value
              IN /\ p = "is_active" => (v <=> st = ACTIVE)
                 /\ p = "is_complete" => (v <=> st \in {SUCCEEDED, FAILED})
                 /\ p = "is_succeeded" => (v <=> st = SUCCEEDED)
    /\ (/\ \A p \in DOMAIN preds : preds[p] # None
        /\ preds.is_active[1].status \in JobStatus
        /\ preds.is_complete[1].status = preds.is_active[1].status
        /\ preds.is_succeeded[1].status = preds.is_active[1].status)
         => /\ preds.is_active[1].value # preds.is_complete[1].value
            /\ preds.is_succeeded[1].value => preds.is_complete[1].value

\* C7: is_active, is_succeeded and is_complete are mutually consistent
\* functions of the status, and a call of any of them leaves the execution's
\* attributes and the cluster's state as they were
C7_PredicatesConsistent ==
    /\ []C7_PredicatesOfStatus
    /\ [][hist' # hist => UNCHANGED <<exec_vars, cluster_vars>>]_vars

\* C7 witness: the three predicates have answered on a FAILED job: complete,
\* not succeeded, not active
C7_Witness ==
    /\ preds.is_active = Some([status |-> FAILED, value |-> FALSE])
    /\ preds.is_complete = Some([status |-> FAILED, value |-> TRUE])
    /\ preds.is_succeeded = Some([status |-> FAILED, value |-> FALSE])

\* C8: for an input longer than 63 characters shorten_namespace returns a
\* prefix of the input of at most 63 characters that does not end with '-',
\* namely the longest such prefix; and every generated job name has at most
\* 63 characters and does not end with '-'
C8_ShortenNamespace ==
    ret # None
      => LET r == ret[1]
             fits(q) == Len(q) <= NameLimit /\ (q = <<>> \/ Last(q) # "-")
         IN /\ Len(arg.value) > NameLimit
                => /\ fits(r)
                   /\ IsPrefix(r, arg.value)
                   /\ \A n \in (Len(r) + 1)..NameLimit :
                        ~fits(SubSeq(arg.value, 1, n))
            /\ arg.generated => fits(r) /\ r # <<>>

\* C8 witness: an input longer than 63 characters with a hyphen as its 63rd
\* character has been shortened to fewer than 63 characters
C8_Witness ==
    /\ ret # None
    /\ ~arg.generated
    /\ Len(arg.value) > NameLimit
    /\ arg.value[NameLimit] = "-"
    /\ Len(ret[1]) < NameLimit
    /\ Len(ret[1]) > 0

\* The flags of the calrissian command line, in the order of the contract
AllFlags ==
    <<"--stdout", "--stderr", "--usage-report", "--max-ram", "--max-cores",
      "--pod-serviceaccount", "--tmp-outdir-prefix", "--outdir",
      "--pod-nodeselectors", "--pod-env-vars", "--debug", "--no-read-only",
      "--tool-logs-basepath", "--executing-workspace", "--calling-workspace",
      "--calling-service-account", "--enable-ext">>

\* C9: the flags of the argument list are, in this relative order, the
\* seventeen flags of the contract with each optional flag present exactly
\* when its input is set (a non-empty node selector or env-vars dict, a true
\* debug, no_read_only or tool_logs); the last two arguments are the workflow
\* reference and the parameter path, and the workflow reference carries
\* '#<entry-point>' exactly when an entry point was given
C9_ArgsOrder ==
    ret # None
      => LET args == ret[1]
             IsFlag(a) == a \in Elems(AllFlags)
             Present(f) ==
               CASE f = "--pod-nodeselectors" -> TruthyDict(arg.pod_node_selector)
                 [] f = "--pod-env-vars" -> TruthyDict(arg.pod_env_vars)
                 [] f = "--debug" -> arg.debug
                 [] f = "--no-read-only" -> arg.no_read_only
                 [] f = "--tool-logs-basepath" -> arg.tool_logs
                 [] OTHER -> TRUE
         IN /\ SelectSeq(args, IsFlag) = SelectSeq(AllFlags, Present)
            /\ Len(args) >= 2
            /\ ~IsFlag(args[Len(args) - 1])
            /\ args[Len(args)] = "/workflow-params/params.yml"
            /\ args[Len(args) - 2] = "--enable-ext"
            /\ arg.cwl_entry_point # None
                 => args[Len(args) - 1] =
                      "/workflow-input/workflow.cwl" \o "#" \o arg.cwl_entry_point[1]
            /\ arg.cwl_entry_point = None
                 => args[Len(args) - 1] = "/workflow-input/workflow.cwl"

\* C9 witness: the argument list of a request with every optional input set
\* and the entry point "main"
C9_Witness ==
    /\ ret # None
    /\ TruthyDict(arg.pod_node_selector)
    /\ TruthyDict(arg.pod_env_vars)
    /\ arg.debug /\ arg.no_read_only /\ arg.tool_logs
    /\ arg.cwl_entry_point = Some("main")
    /\ ret[1][Len(ret[1]) - 1] = "/workflow-input/workflow.cwl#main"
    /\ Len(SelectSeq(ret[1], LAMBDA a : a \in Elems(AllFlags))) = Len(AllFlags)

\* C10: a built manifest holds temporary cross-workspace volumes or mounts
\* only when calling_workspace differs from executing_workspace; when the two
\* are equal the calling workspace's custom resource is not fetched; when they
\* differ and the custom resource cannot be fetched no manifest is returned,
\* and the fetch's error is the one that leaves the build once the fetch was
\* made
C10_CrossWorkspaceOnlyWhenDifferent ==
    ret # None
      => LET built == ret[1]
             request == arg[1]
             env == arg[2]
             same == request.calling_workspace = request.executing_workspace
             temp == IF built.manifest = None THEN {}
                     ELSE {n \in Names(built.manifest[1].volumes)
                                 \cup Names(built.manifest[1].volume_mounts) :
                              IsTempName(n)}
         IN /\ temp # {} => ~same
            /\ same => ~built.fetched_cr
            /\ (~same /\ ~env.cr.ok)
                 => /\ built.raised # ""
                    /\ built.manifest = None
                    /\ built.fetched_cr => built.raised = "ApiException"
            /\ built.manifest # None
                 => \A v \in Elems(built.manifest[1].volumes) :
                      IsTempName(v.name) => IsTempVolume(v)

\* C10 witness: a manifest built for a calling workspace other than the
\* executing one holds a temporary volume claimed by temp-pvc-workspace-<base>
C10_Witness ==
    /\ ret # None
    /\ arg[1].calling_workspace # arg[1].executing_workspace
    /\ ret[1].manifest # None
    /\ ret[1].fetched_cr
    /\ \E v \in Elems(ret[1].manifest[1].volumes) :
         /\ IsTempVolume(v)
         /\ v.name = <<"temp-pv-", "data">>
         /\ v.source = <<"temp-pvc-workspace-", "data">>

\* C11 as stated: every value a get_status call returns on a submitted job is
\* one of ACTIVE, SUCCEEDED, FAILED, whatever the status fields the cluster
\* reports, a started job without active pods and without succeeded or failed
\* pods included
C11_StatusTotal ==
    \A i \in 1..Len(hist) : hist[i] \in JobStatus

\* C12 as stated: get_log and get_usage_report send a pod lookup or a log
\* read only while the job status is SUCCEEDED or FAILED, get_output only
\* while it is SUCCEEDED; while it is ACTIVE none of the three sends one
C12_ArtifactsOnlyWhenTerminal ==
    \A i \in 1..Len(artifacts) :
      LET a == artifacts[i] IN
      a.requests # <<>>
        => /\ a.status # ACTIVE
           /\ a.call \in {"get_log", "get_usage_report"}
                => a.status \in {SUCCEEDED, FAILED}
           /\ a.call = "get_output" => a.status = SUCCEEDED

\* C13: in every manifest to_k8s_job returns, the volume list and the
\* volume-mount list have the same length, the i-th mount names the i-th
\* volume, and the first three entries are the workflow document, the
\* parameters and the working directory, in that order
C13_VolumesAlignedWithMounts ==
    (ret # None /\ ret[1].manifest # None)
      => LET volumes == ret[1].manifest[1].volumes
             volume_mounts == ret[1].manifest[1].volume_mounts
         IN /\ Len(volumes) = Len(volume_mounts)
            /\ \A i \in 1..Len(volumes) :
                 i <= Len(volume_mounts) => volume_mounts[i].name = volumes[i].name
            /\ Len(volumes) >= 3
            /\ volumes[1].name = <<"volume-cwl-workflow">>
            /\ volumes[2].name = <<"volume-params">>
            /\ volumes[3].name = volume_calrissian_wdir
            /\ volumes[3].source = <<arg[1].calrissian_wdir>>

\* C13 witness: a manifest with both optional mounts, a registry of two
\* entries of which one has a created claim, and two access points of the
\* calling workspace: eight volumes and eight mounts
C13_Witness ==
    /\ ret # None
    /\ ret[1].manifest # None
    /\ TruthyDict(arg[1].pod_env_vars)
    /\ TruthyDict(arg[1].pod_node_selector)
    /\ arg[2].config.data # None
    /\ pvcs_list(arg[2].config.data[1]) =
         <<[pvcName |-> Some("pvc-y"), pvName |-> None],
           [pvcName |-> Some("pvc-x"), pvName |-> Some("pv-x")]>>
    /\ arg[2].created_pvcs = {"pvc-x"}
    /\ Len(arg[2].cr.access_points) = 2
    /\ Len(ret[1].manifest[1].volumes) = 8
    /\ Len(ret[1].manifest[1].volume_mounts) = 8
    /\ ret[1].manifest[1].volume_mounts[4].name = <<"volume-pod-env-vars">>
    /\ ret[1].manifest[1].volume_mounts[6].name = <<"workspace-efs-", "pvc-x">>
    /\ IsTempName(ret[1].manifest[1].volume_mounts[8].name)

\* The latest last_transition_time among the conditions
LatestTransition(conditions) ==
    CHOOSE t \in {conditions[i].last_transition_time : i \in 1..Len(conditions)} :
      \A i \in 1..Len(conditions) : conditions[i].last_transition_time <= t

\* C14 as stated: get_completion_time returns the explicit completion time
\* when it is present; when it is absent and there are one or more
\* conditions, it returns the latest last_transition_time among them
C14_CompletionTimeMostRecent ==
    (ret # None /\ ret[1].raised # "ApiException")
      => /\ arg.completion_time # None
              => (ret[1].raised = "" /\ ret[1].value = arg.completion_time)
         /\ (/\ arg.completion_time = None
             /\ arg.conditions # None
             /\ arg.conditions[1] # <<>>)
              => /\ ret[1].raised = ""
                 /\ ret[1].value = Some(LatestTransition(arg.conditions[1]))

====
